---- MODULE Spec2Model ----
(***************************************************************************)
(* falco_configuration::init (userspace/falco/configuration.cpp): the      *)
(* resolution of a configuration document and command-line overrides into  *)
(* a falco_configuration object.                                           *)
(*                                                                         *)
(* A string is a sequence of tokens; a token is a TLA+ string holding a    *)
(* run of characters with no delimiter ("=", ".", "/") in it, or one       *)
(* delimiter.  The empty string is << >>.                                  *)
(***************************************************************************)
EXTENDS Integers, Sequences, FiniteSets, TLC

VARIABLES
    cmdline_options,    \* init's argument: the overrides, in order
    conf,               \* the document as load_from_file read it (never changes)
    fs,                 \* the filesystem: path -> [exists, st_mode, readable]
    fs_changes,         \* how many times the environment changed the filesystem
    pc,                 \* init's position
    m_config,           \* the yaml_configuration: [scalars, sequences]
    opt_idx,            \* init_cmdline_options' loop position
    file_idx,           \* position of the loop over rules_files (line 74)
    dir_pending,        \* entries the open DIR has not returned yet
    dir_filenames,      \* read_rules_file_directory's local vector
    m_rules_filenames,
    m_outputs,
    m_grpc_enabled,
    m_log_level,
    m_min_priority,
    m_webserver_enabled,
    m_syscall_evt_drop_actions,
    m_syscall_evt_drop_threshold,
    m_syscall_evt_timeout_max_consecutives,
    m_metadata_download_max_mb,
    m_metadata_download_watch_freq_sec,
    m_plugins,
    err,                \* the logic_error thrown, "none" while none was
    exit_status         \* the status exit() was called with, as the parent sees it

inputs == <<cmdline_options, conf>>
cmdline_vars == <<m_config, opt_idx>>
fs_vars == <<fs, fs_changes>>
drop_vars == <<m_syscall_evt_drop_actions>>
rules_vars == <<file_idx, dir_pending, dir_filenames, m_rules_filenames>>
outputs_vars == <<m_outputs, m_grpc_enabled>>
logging_vars == <<m_log_level, m_min_priority>>
numeric_vars == <<m_syscall_evt_drop_threshold, m_syscall_evt_timeout_max_consecutives,
                  m_metadata_download_max_mb, m_metadata_download_watch_freq_sec>>
vars == <<cmdline_options, conf, fs, fs_changes, pc, m_config, opt_idx,
          file_idx, dir_pending, dir_filenames, m_rules_filenames,
          m_outputs, m_grpc_enabled, m_log_level, m_min_priority,
          m_webserver_enabled,
          m_syscall_evt_drop_actions, m_syscall_evt_drop_threshold,
          m_syscall_evt_timeout_max_consecutives, m_metadata_download_max_mb,
          m_metadata_download_watch_freq_sec, m_plugins, err, exit_status>>

(***************************************************************************)
(* Bounds of the model.                                                    *)
(***************************************************************************)
MaxOpts == 2        \* command-line overrides per run
MaxActs == 3        \* names in syscall_event_drops.actions
MaxPlugins == 2     \* declared plugins
MaxRules == 2       \* entries of rules_file
MaxFsChanges == 1   \* filesystem changes by the environment during the scan

Range(s) == {s[i] : i \in 1..Len(s)}

SeqsUpTo(S, n) == UNION {[1..k -> S] : k \in 0..n}

(***************************************************************************)
(* The document store (yaml_configuration, configuration.h).               *)
(***************************************************************************)
get_scalar(doc, key, default_value) ==
    IF key \in DOMAIN doc.scalars THEN doc.scalars[key] ELSE default_value

get_sequence(doc, key) ==
    IF key \in DOMAIN doc.sequences THEN doc.sequences[key] ELSE << >>

is_defined(doc, key) ==
    key \in DOMAIN doc.scalars \/ key \in DOMAIN doc.sequences

set_scalar(doc, key, value) ==
    [doc EXCEPT !.scalars =
        [k \in DOMAIN doc.scalars \cup {key} |->
            IF k = key THEN value ELSE doc.scalars[k]]]

\* The keys init reads.
K_rules_file == <<"rules_file">>
K_file_enabled == <<"file_output", ".", "enabled">>
K_file_filename == <<"file_output", ".", "filename">>
K_file_keep_alive == <<"file_output", ".", "keep_alive">>
K_stdout_enabled == <<"stdout_output", ".", "enabled">>
K_syslog_enabled == <<"syslog_output", ".", "enabled">>
K_program_enabled == <<"program_output", ".", "enabled">>
K_program_program == <<"program_output", ".", "program">>
K_program_keep_alive == <<"program_output", ".", "keep_alive">>
K_http_enabled == <<"http_output", ".", "enabled">>
K_http_url == <<"http_output", ".", "url">>
K_http_user_agent == <<"http_output", ".", "user_agent">>
K_grpc_enabled == <<"grpc", ".", "enabled">>
K_grpc_output_enabled == <<"grpc_output", ".", "enabled">>
K_log_level == <<"log_level">>
K_priority == <<"priority">>
K_drop_actions == <<"syscall_event_drops", ".", "actions">>
K_drop_threshold == <<"syscall_event_drops", ".", "threshold">>
K_max_consecutives == <<"syscall_event_timeouts", ".", "max_consecutives">>
K_max_mb == <<"metadata_download", ".", "max_mb">>
K_watch_freq_sec == <<"metadata_download", ".", "watch_freq_sec">>
K_load_plugins == <<"load_plugins">>
K_plugins == <<"plugins">>

(***************************************************************************)
(* Override Applier: split, set_cmdline_option, init_cmdline_options.      *)
(***************************************************************************)
\* str.find_first_of(delim): the first position holding delim, 0 for npos.
RECURSIVE find_first_of_from(_, _, _)
find_first_of_from(str, delim, i) ==
    IF i > Len(str) THEN 0
    ELSE IF str[i] = delim THEN i
    ELSE find_first_of_from(str, delim, i + 1)

find_first_of(str, delim) == find_first_of_from(str, delim, 1)

\* split made with str.find_last_of(delim).
RECURSIVE find_last_of_from(_, _, _)
find_last_of_from(str, delim, i) ==
    IF i < 1 THEN 0
    ELSE IF str[i] = delim THEN i
    ELSE find_last_of_from(str, delim, i - 1)

split_at_last(str, delim) ==
    LET pos == find_last_of_from(str, delim, Len(str)) IN
    IF pos = 0 THEN [ok |-> FALSE, first |-> << >>, second |-> << >>]
    ELSE [ok |-> TRUE,
          first |-> SubSeq(str, 1, pos - 1),
          second |-> SubSeq(str, pos + 1, Len(str))]

\* split: [ok, first, second]; parts are left alone when there is no delim.
split(str, delim) ==
    LET pos == find_first_of(str, delim) IN
    IF pos = 0 THEN [ok |-> FALSE, first |-> << >>, second |-> << >>]
    ELSE [ok |-> TRUE,
          first |-> SubSeq(str, 1, pos - 1),
          second |-> SubSeq(str, pos + 1, Len(str))]

(***************************************************************************)
(* The filesystem, as stat(2), opendir(3) and readdir(3) show it.          *)
(* st_mode holds the file type bits of <sys/stat.h> (octal in the header). *)
(***************************************************************************)
S_IFIFO == 4096     \* 0010000
S_IFCHR == 8192     \* 0020000
S_IFDIR == 16384    \* 0040000
S_IFBLK == 24576    \* 0060000
S_IFREG == 32768    \* 0100000
S_IFSOCK == 49152   \* 0140000

FileTypes == {S_IFIFO, S_IFCHR, S_IFDIR, S_IFBLK, S_IFREG, S_IFSOCK}

\* a & b on non-negative integers.
RECURSIVE BitAnd(_, _)
BitAnd(a, b) ==
    IF a = 0 \/ b = 0 THEN 0
    ELSE (a % 2) * (b % 2) + 2 * BitAnd(a \div 2, b \div 2)

DirPath == <<"d">>
FilePath == <<"f">>
TopPaths == {DirPath, FilePath}
MemberNames == {<<"b">>, <<"a", "b">>}
DotNames == {<<".">>, <<".", ".">>}

\* path + "/" + ent->d_name (line 337)
efile_of(path, d_name) == path \o <<"/">> \o d_name

MemberPaths == {efile_of(DirPath, n) : n \in MemberNames}
FsPaths == TopPaths \cup MemberPaths

Absent == [exists |-> FALSE, st_mode |-> 0, readable |-> FALSE]
Node(type, readable) == [exists |-> TRUE, st_mode |-> type, readable |-> readable]

\* A directory in the kernel's sense: the type field equals S_IFDIR.
IsDirNode(n) == n.exists /\ n.st_mode = S_IFDIR

\* stat(path, &st): [rc, st_mode].  "p/." is p, "p/.." is p's parent; both
\* need p to be a directory, as every path below p does.
stat(fsys, path) ==
    LET fail == [rc |-> -1, st_mode |-> 0] IN
    IF path \in TopPaths
    THEN IF fsys[path].exists THEN [rc |-> 0, st_mode |-> fsys[path].st_mode] ELSE fail
    ELSE LET parents == {p \in TopPaths :
                            \E n \in MemberNames \cup DotNames : path = efile_of(p, n)} IN
         IF parents = {} THEN fail
         ELSE LET p == CHOOSE q \in parents : TRUE IN
              IF ~IsDirNode(fsys[p]) THEN fail
              ELSE IF path \in {efile_of(p, n) : n \in DotNames}
                   THEN [rc |-> 0, st_mode |-> S_IFDIR]
              ELSE IF path \in DOMAIN fsys /\ fsys[path].exists
                   THEN [rc |-> 0, st_mode |-> fsys[path].st_mode]
              ELSE fail

\* opendir(path): [ok, entries]; the entries readdir will return, "." and
\* ".." among them.
opendir(fsys, path) ==
    IF path \in TopPaths /\ IsDirNode(fsys[path]) /\ fsys[path].readable
    THEN [ok |-> TRUE,
          entries |-> DotNames \cup
                      {n \in MemberNames : efile_of(path, n) \in DOMAIN fsys
                                           /\ fsys[efile_of(path, n)].exists}]
    ELSE [ok |-> FALSE, entries |-> {}]

\* Members live only below a directory.
FsConsistent(fsys) ==
    \A p \in MemberPaths : fsys[p].exists => IsDirNode(fsys[DirPath])

(***************************************************************************)
(* std::string's operator< and std::sort (lines 355-356).                  *)
(***************************************************************************)
CharCode == ("." :> 46) @@ ("/" :> 47) @@ ("a" :> 97) @@ ("b" :> 98)
            @@ ("d" :> 100) @@ ("f" :> 102)

RECURSIVE string_less_from(_, _, _)
string_less_from(s, t, i) ==
    IF i > Len(t) THEN FALSE
    ELSE IF i > Len(s) THEN TRUE
    ELSE IF CharCode[s[i]] < CharCode[t[i]] THEN TRUE
    ELSE IF CharCode[s[i]] > CharCode[t[i]] THEN FALSE
    ELSE string_less_from(s, t, i + 1)

string_less(s, t) == string_less_from(s, t, 1)

RECURSIVE sort_insert(_, _)
sort_insert(x, sorted) ==
    IF sorted = << >> THEN <<x>>
    ELSE IF string_less(x, Head(sorted)) THEN <<x>> \o sorted
    ELSE <<Head(sorted)>> \o sort_insert(x, Tail(sorted))

RECURSIVE std_sort(_)
std_sort(v) ==
    IF v = << >> THEN << >> ELSE sort_insert(Head(v), std_sort(Tail(v)))

(***************************************************************************)
(* Output Sink Selector (lines 84-181).  A step takes and returns          *)
(* [err, outputs, grpc_enabled]: the error thrown so far, m_outputs and    *)
(* m_grpc_enabled.  A throw leaves what was pushed before it.              *)
(***************************************************************************)
\* The checks of lines 94, 126 and 145 left out.
never_missing(value) == FALSE

\* filename == string("")
missing_parameter(value) == value = << >>

file_output_step(doc, r) ==
    IF r.err # "none" \/ ~get_scalar(doc, K_file_enabled, FALSE) THEN r
    ELSE LET filename == get_scalar(doc, K_file_filename, << >>) IN
         IF missing_parameter(filename)
         THEN [r EXCEPT !.err = "file_no_filename"]
         ELSE [r EXCEPT !.outputs = Append(@,
                  [name |-> "file",
                   options |-> [filename |-> filename,
                                keep_alive |-> get_scalar(doc, K_file_keep_alive, << >>)]])]

stdout_output_step(doc, r) ==
    IF r.err # "none" \/ ~get_scalar(doc, K_stdout_enabled, FALSE) THEN r
    ELSE [r EXCEPT !.outputs = Append(@, [name |-> "stdout", options |-> << >>])]

syslog_output_step(doc, r) ==
    IF r.err # "none" \/ ~get_scalar(doc, K_syslog_enabled, FALSE) THEN r
    ELSE [r EXCEPT !.outputs = Append(@, [name |-> "syslog", options |-> << >>])]

program_output_step(doc, r) ==
    IF r.err # "none" \/ ~get_scalar(doc, K_program_enabled, FALSE) THEN r
    ELSE LET program == get_scalar(doc, K_program_program, << >>) IN
         IF missing_parameter(program)
         THEN [r EXCEPT !.err = "program_no_program"]
         ELSE [r EXCEPT !.outputs = Append(@,
                  [name |-> "program",
                   options |-> [program |-> program,
                                keep_alive |-> get_scalar(doc, K_program_keep_alive, << >>)]])]

http_output_step(doc, r) ==
    IF r.err # "none" \/ ~get_scalar(doc, K_http_enabled, FALSE) THEN r
    ELSE LET url == get_scalar(doc, K_http_url, << >>) IN
         IF missing_parameter(url)
         THEN [r EXCEPT !.err = "http_no_url"]
         ELSE [r EXCEPT !.outputs = Append(@,
                  [name |-> "http",
                   options |-> [url |-> url,
                                user_agent |-> get_scalar(doc, K_http_user_agent,
                                                          <<"falcosecurity", "/", "falco">>)]])]

\* The per-sink flag alone.
grpc_output_alone(doc, grpc_enabled) == get_scalar(doc, K_grpc_output_enabled, TRUE)

\* line 173: gRPC output is enabled only if gRPC server is enabled too
grpc_output_selected(doc, grpc_enabled) ==
    get_scalar(doc, K_grpc_output_enabled, TRUE) /\ grpc_enabled

grpc_output_step(doc, r) ==
    IF r.err # "none" THEN r
    ELSE LET grpc_enabled == get_scalar(doc, K_grpc_enabled, FALSE) IN
         [r EXCEPT !.grpc_enabled = grpc_enabled,
                   !.outputs = IF grpc_output_selected(doc, grpc_enabled)
                               THEN Append(@, [name |-> "grpc", options |-> << >>])
                               ELSE @]

no_outputs_step(r) ==
    IF r.err = "none" /\ Len(r.outputs) = 0 THEN [r EXCEPT !.err = "no_outputs"] ELSE r

outputs_result(doc, outputs, grpc_enabled) ==
    no_outputs_step(
     grpc_output_step(doc,
      http_output_step(doc,
       program_output_step(doc,
        syslog_output_step(doc,
         stdout_output_step(doc,
          file_output_step(doc,
            [err |-> "none", outputs |-> outputs, grpc_enabled |-> grpc_enabled])))))))

(***************************************************************************)
(* Logging level and priority (lines 183-202).                             *)
(***************************************************************************)
\* The names line 195 lists, most severe first.
PriorityNames == <<"emergency", "alert", "critical", "error", "warning", "notice",
                   "informational", "debug">>

\* falco_common::parse_priority: [ok, priority]
parse_priority(priority) ==
    IF \E i \in 1..Len(PriorityNames) : priority = <<PriorityNames[i]>>
    THEN [ok |-> TRUE,
          priority |-> (CHOOSE i \in 1..Len(PriorityNames) : priority = <<PriorityNames[i]>>) - 1]
    ELSE [ok |-> FALSE, priority |-> 0]

(***************************************************************************)
(* Drop-Action Set Builder (lines 211-249): [err, actions].                *)
(***************************************************************************)
\* The check of lines 222 and 230 left out.
ignore_never_present(actions) == FALSE

\* m_syscall_evt_drop_actions.count(syscall_evt_drop_action::IGNORE)
ignore_present(actions) == "IGNORE" \in actions

RECURSIVE drop_actions_loop(_, _, _)
drop_actions_loop(acts, i, actions) ==
    IF i > Len(acts) THEN [err |-> "none", actions |-> actions]
    ELSE LET act == acts[i] IN
         IF act = <<"ignore">>
         THEN drop_actions_loop(acts, i + 1, actions \cup {"IGNORE"})
         ELSE IF act = <<"log">>
         THEN IF ignore_present(actions)
              THEN [err |-> "drop_ignore_conflict", actions |-> actions]
              ELSE drop_actions_loop(acts, i + 1, actions \cup {"LOG"})
         ELSE IF act = <<"alert">>
         THEN IF ignore_present(actions)
              THEN [err |-> "drop_ignore_conflict", actions |-> actions]
              ELSE drop_actions_loop(acts, i + 1, actions \cup {"ALERT"})
         ELSE IF act = <<"exit">>
         THEN drop_actions_loop(acts, i + 1, actions \cup {"EXIT"})
         ELSE [err |-> "drop_unknown_action", actions |-> actions]

\* The builder with its two throws left out.
drop_actions_unchecked(acts, actions) ==
    LET enum == [ignore |-> "IGNORE", log |-> "LOG", alert |-> "ALERT", exit |-> "EXIT"]
        named == actions \cup
                 {enum[n] : n \in {m \in DOMAIN enum : \E j \in 1..Len(acts) : acts[j] = <<m>>}}
    IN  [err |-> "none", actions |-> IF named = {} THEN {"IGNORE"} ELSE named]

drop_actions_result(acts, actions) ==
    LET r == drop_actions_loop(acts, 1, actions) IN
    IF r.err = "none" /\ r.actions = {}
    THEN [r EXCEPT !.actions = {"IGNORE"}]
    ELSE r

(***************************************************************************)
(* The numeric range checks (lines 251-276).  A double is held in tenths.  *)
(***************************************************************************)
Dbl(units, tenths) == 10 * units + tenths

\* The members the constructor (lines 34-44) leaves uninitialised hold this
\* until init assigns them; init never reads one before.
Indeterminate == -999

\* The check as the message of line 269 words it ("should be < 1024").
max_mb_below_1024(max_mb) == max_mb >= 1024

\* line 252
threshold_out_of_range(threshold) == threshold < Dbl(0, 0) \/ threshold > Dbl(1, 0)

\* line 267
max_mb_out_of_range(max_mb) == max_mb > 1024

\* [err, threshold, max_consecutives, max_mb, watch_freq_sec]; r holds the
\* members as they are before.
numeric_result(doc, r) ==
    LET threshold == get_scalar(doc, K_drop_threshold, Dbl(0, 1))
        r1 == [r EXCEPT !.threshold = threshold]
        max_consecutives == get_scalar(doc, K_max_consecutives, 1000)
        r2 == [r1 EXCEPT !.max_consecutives = max_consecutives]
        max_mb == get_scalar(doc, K_max_mb, 100)
        r3 == [r2 EXCEPT !.max_mb = max_mb]
        watch_freq_sec == get_scalar(doc, K_watch_freq_sec, 1)
        r4 == [r3 EXCEPT !.watch_freq_sec = watch_freq_sec]
    IN  IF threshold_out_of_range(threshold) THEN [r1 EXCEPT !.err = "drop_threshold_range"]
        ELSE IF max_consecutives = 0 THEN [r2 EXCEPT !.err = "max_consecutives_zero"]
        ELSE IF max_mb_out_of_range(max_mb) THEN [r3 EXCEPT !.err = "max_mb_range"]
        ELSE IF watch_freq_sec = 0 THEN [r4 EXCEPT !.err = "watch_freq_zero"]
        ELSE r4

(***************************************************************************)
(* Plugin Config Filter (lines 278-305): [err, plugins].                   *)
(* A declaration is [m_name, loadable]; decoding one that is not loadable  *)
(* throws (line 291).                                                      *)
(***************************************************************************)
\* The allow-list consulted whether or not the key is there.
plugin_in_allow_list(load_plugins_node_defined, load_plugins, p) ==
    p.m_name \in load_plugins

\* line 301
plugin_selected(load_plugins_node_defined, load_plugins, p) ==
    ~load_plugins_node_defined \/ p.m_name \in load_plugins

RECURSIVE plugins_loop(_, _, _, _)
plugins_loop(plugins, load_plugins_node_defined, load_plugins, out) ==
    IF plugins = << >> THEN out
    ELSE plugins_loop(Tail(plugins), load_plugins_node_defined, load_plugins,
                      IF plugin_selected(load_plugins_node_defined, load_plugins,
                                         Head(plugins))
                      THEN Append(out, Head(plugins))
                      ELSE out)

plugins_result(doc, m_plugins_before) ==
    LET load_plugins_node_defined == is_defined(doc, K_load_plugins)
        load_plugins == Range(get_sequence(doc, K_load_plugins))
        plugins == get_sequence(doc, K_plugins)
    IN  IF \E i \in 1..Len(plugins) : ~plugins[i].loadable
        THEN [err |-> "plugins_load", plugins |-> m_plugins_before]
        ELSE [err |-> "none",
              plugins |-> plugins_loop(plugins, load_plugins_node_defined, load_plugins,
                                       m_plugins_before)]

(***************************************************************************)
(* init, step by step.                                                     *)
(***************************************************************************)
\* What the parent process sees of exit(status): status & 0377.
exit_code(status) == status % 256

\* list<string> rules_files (lines 70-72)
rules_files == get_sequence(m_config, K_rules_file)

\* init_cmdline_options (lines 386-392), one set_cmdline_option (394-404)
\* per step; past the last option init goes on to line 70.
InitCmdlineOptions ==
    /\ pc = "cmdline"
    /\ IF opt_idx > Len(cmdline_options)
       THEN /\ pc' = "rules"
            /\ UNCHANGED <<m_config, opt_idx, err>>
       ELSE LET keyval == split(cmdline_options[opt_idx], "=") IN
            IF ~keyval.ok
            THEN /\ pc' = "error"
                 /\ err' = "cmdline_syntax"
                 /\ UNCHANGED <<m_config, opt_idx>>
            ELSE /\ m_config' = set_scalar(m_config, keyval.first, keyval.second)
                 /\ opt_idx' = opt_idx + 1
                 /\ UNCHANGED <<pc, err>>
    /\ UNCHANGED <<inputs, fs_vars, rules_vars, outputs_vars, logging_vars,
                   m_webserver_enabled, drop_vars, numeric_vars, m_plugins, exit_status>>

\* The loop of lines 74-82: stat of the next entry; one that fails is left out.
RulesFileStat ==
    /\ pc = "rules"
    /\ IF file_idx > Len(rules_files)
       THEN /\ pc' = "outputs"
            /\ UNCHANGED file_idx
       ELSE IF stat(fs, rules_files[file_idx]).rc = 0
            THEN /\ pc' = "rrfd_stat"
                 /\ UNCHANGED file_idx
            ELSE /\ file_idx' = file_idx + 1
                 /\ UNCHANGED pc
    /\ UNCHANGED <<inputs, fs_vars, cmdline_vars, dir_pending, dir_filenames,
                   m_rules_filenames, outputs_vars, logging_vars, m_webserver_enabled,
                   drop_vars, numeric_vars, m_plugins, err, exit_status>>

\* read_rules_file_directory passing over a path its stat fails on, the way
\* the loop of lines 74-82 does.
ReadRulesFileDirectoryStatLenient ==
    /\ pc = "rrfd_stat"
    /\ LET path == rules_files[file_idx]
           st == stat(fs, path)
       IN  IF st.rc # 0
           THEN /\ file_idx' = file_idx + 1
                /\ pc' = "rules"
                /\ UNCHANGED <<m_rules_filenames, exit_status>>
           ELSE IF BitAnd(st.st_mode, S_IFDIR) # 0
           THEN /\ pc' = "rrfd_opendir"
                /\ UNCHANGED <<file_idx, m_rules_filenames, exit_status>>
           ELSE /\ m_rules_filenames' = Append(m_rules_filenames, path)
                /\ file_idx' = file_idx + 1
                /\ pc' = "rules"
                /\ UNCHANGED exit_status
    /\ UNCHANGED <<inputs, fs_vars, cmdline_vars, dir_pending, dir_filenames,
                   outputs_vars, logging_vars, m_webserver_enabled,
                   drop_vars, numeric_vars, m_plugins, err>>

\* read_rules_file_directory, lines 310-320 and 363-369.
ReadRulesFileDirectoryStat ==
    /\ pc = "rrfd_stat"
    /\ LET path == rules_files[file_idx]
           st == stat(fs, path)
       IN  IF st.rc # 0
           THEN /\ pc' = "exited"
                /\ exit_status' = <<exit_code(-1)>>
                /\ UNCHANGED <<file_idx, m_rules_filenames>>
           ELSE IF BitAnd(st.st_mode, S_IFDIR) # 0
           THEN /\ pc' = "rrfd_opendir"
                /\ UNCHANGED <<file_idx, m_rules_filenames, exit_status>>
           ELSE /\ m_rules_filenames' = Append(m_rules_filenames, path)
                /\ file_idx' = file_idx + 1
                /\ pc' = "rules"
                /\ UNCHANGED exit_status
    /\ UNCHANGED <<inputs, fs_vars, cmdline_vars, dir_pending, dir_filenames,
                   outputs_vars, logging_vars, m_webserver_enabled,
                   drop_vars, numeric_vars, m_plugins, err>>

\* lines 325-333
ReadRulesFileDirectoryOpen ==
    /\ pc = "rrfd_opendir"
    /\ LET dir == opendir(fs, rules_files[file_idx]) IN
       IF ~dir.ok
       THEN /\ pc' = "exited"
            /\ exit_status' = <<exit_code(-1)>>
            /\ UNCHANGED <<dir_pending, dir_filenames>>
       ELSE /\ dir_pending' = dir.entries
            /\ dir_filenames' = << >>
            /\ pc' = "rrfd_readdir"
            /\ UNCHANGED exit_status
    /\ UNCHANGED <<inputs, fs_vars, cmdline_vars, file_idx, m_rules_filenames,
                   outputs_vars, logging_vars, m_webserver_enabled,
                   drop_vars, numeric_vars, m_plugins, err>>

\* One readdir and the body of the loop (lines 335-351), in whatever order
\* the directory hands its entries out; at the end of the directory, lines
\* 353-361.
ReadRulesFileDirectoryEntry ==
    /\ pc = "rrfd_readdir"
    /\ IF dir_pending = {}
       THEN /\ m_rules_filenames' = m_rules_filenames \o std_sort(dir_filenames)
            /\ file_idx' = file_idx + 1
            /\ pc' = "rules"
            /\ UNCHANGED <<dir_pending, dir_filenames, exit_status>>
       ELSE \E d_name \in dir_pending :
            LET efile == efile_of(rules_files[file_idx], d_name)
                st == stat(fs, efile)
            IN  IF st.rc # 0
                THEN /\ pc' = "exited"
                     /\ exit_status' = <<exit_code(-1)>>
                     /\ UNCHANGED <<dir_pending, dir_filenames, file_idx,
                                    m_rules_filenames>>
                ELSE /\ dir_pending' = dir_pending \ {d_name}
                     /\ dir_filenames' = IF BitAnd(st.st_mode, S_IFREG) # 0
                                         THEN Append(dir_filenames, efile)
                                         ELSE dir_filenames
                     /\ UNCHANGED <<pc, file_idx, m_rules_filenames, exit_status>>
    /\ UNCHANGED <<inputs, fs_vars, cmdline_vars, outputs_vars, logging_vars,
                   m_webserver_enabled, drop_vars, numeric_vars, m_plugins, err>>

\* lines 84-181
InitOutputs ==
    /\ pc = "outputs"
    /\ LET r == outputs_result(m_config, m_outputs, m_grpc_enabled) IN
       /\ m_outputs' = r.outputs
       /\ m_grpc_enabled' = r.grpc_enabled
       /\ err' = r.err
       /\ pc' = IF r.err = "none" THEN "logging" ELSE "error"
    /\ UNCHANGED <<inputs, fs_vars, cmdline_vars, rules_vars, logging_vars,
                   m_webserver_enabled, drop_vars, numeric_vars, m_plugins, exit_status>>

\* lines 183-202
InitLogging ==
    /\ pc = "logging"
    /\ m_log_level' = get_scalar(m_config, K_log_level, <<"info">>)
    /\ LET p == parse_priority(get_scalar(m_config, K_priority, <<"debug">>)) IN
       IF p.ok
       THEN /\ m_min_priority' = p.priority
            /\ pc' = "webserver"
            /\ UNCHANGED err
       ELSE /\ pc' = "error"
            /\ err' = "unknown_priority"
            /\ UNCHANGED m_min_priority
    /\ UNCHANGED <<inputs, fs_vars, cmdline_vars, rules_vars, outputs_vars,
                   m_webserver_enabled, drop_vars, numeric_vars, m_plugins, exit_status>>

\* lines 204-209
InitWebserver ==
    /\ pc = "webserver"
    /\ m_webserver_enabled' = get_scalar(m_config, <<"webserver", ".", "enabled">>, FALSE)
    /\ pc' = "drop_actions"
    /\ UNCHANGED <<inputs, fs_vars, cmdline_vars, rules_vars, outputs_vars, logging_vars,
                   drop_vars, numeric_vars, m_plugins, err, exit_status>>

\* lines 211-249
InitDropActions ==
    /\ pc = "drop_actions"
    /\ LET r == drop_actions_result(get_sequence(m_config, K_drop_actions),
                                    m_syscall_evt_drop_actions) IN
       /\ m_syscall_evt_drop_actions' = r.actions
       /\ err' = r.err
       /\ pc' = IF r.err = "none" THEN "numeric" ELSE "error"
    /\ UNCHANGED <<inputs, fs_vars, cmdline_vars, rules_vars, outputs_vars, logging_vars,
                   m_webserver_enabled, numeric_vars, m_plugins, exit_status>>

\* lines 251-276
InitNumeric ==
    /\ pc = "numeric"
    /\ LET r == numeric_result(m_config,
                  [err |-> "none",
                   threshold |-> m_syscall_evt_drop_threshold,
                   max_consecutives |-> m_syscall_evt_timeout_max_consecutives,
                   max_mb |-> m_metadata_download_max_mb,
                   watch_freq_sec |-> m_metadata_download_watch_freq_sec]) IN
       /\ m_syscall_evt_drop_threshold' = r.threshold
       /\ m_syscall_evt_timeout_max_consecutives' = r.max_consecutives
       /\ m_metadata_download_max_mb' = r.max_mb
       /\ m_metadata_download_watch_freq_sec' = r.watch_freq_sec
       /\ err' = r.err
       /\ pc' = IF r.err = "none" THEN "plugins" ELSE "error"
    /\ UNCHANGED <<inputs, fs_vars, cmdline_vars, rules_vars, outputs_vars, logging_vars,
                   m_webserver_enabled, drop_vars, m_plugins, exit_status>>

\* lines 278-305
InitPlugins ==
    /\ pc = "plugins"
    /\ LET r == plugins_result(m_config, m_plugins) IN
       /\ m_plugins' = r.plugins
       /\ err' = r.err
       /\ pc' = IF r.err = "none" THEN "done" ELSE "error"
    /\ UNCHANGED <<inputs, fs_vars, cmdline_vars, rules_vars, outputs_vars, logging_vars,
                   m_webserver_enabled, drop_vars, numeric_vars, exit_status>>

(***************************************************************************)
(* The environment: another process changes one path while init scans.     *)
(***************************************************************************)
ScanPcs == {"rules", "rrfd_stat", "rrfd_opendir", "rrfd_readdir"}

FsChange ==
    /\ pc \in ScanPcs
    /\ fs_changes < MaxFsChanges
    /\ \E p \in FsPaths :
       \E n \in {Absent, Node(S_IFREG, TRUE), Node(S_IFDIR, TRUE), Node(S_IFDIR, FALSE)} :
          LET changed == [fs EXCEPT ![p] = n]
              \* what lay below a directory goes with it
              after == [q \in FsPaths |->
                           IF q \in MemberPaths /\ ~IsDirNode(changed[DirPath])
                           THEN Absent ELSE changed[q]]
          IN  /\ after # fs
              /\ (p \in MemberPaths /\ n.exists => IsDirNode(fs[DirPath]))
              /\ fs' = after
    /\ fs_changes' = fs_changes + 1
    /\ UNCHANGED <<inputs, pc, cmdline_vars, rules_vars, outputs_vars, logging_vars,
                   m_webserver_enabled, drop_vars, numeric_vars, m_plugins, err,
                   exit_status>>

(***************************************************************************)
(* The state after construction (lines 34-44) and load_from_file (60),     *)
(* for a document, an override list and a filesystem.                      *)
(***************************************************************************)
InitState(opts, doc, fsys) ==
    /\ cmdline_options = opts
    /\ conf = doc
    /\ m_config = doc
    /\ fs = fsys
    /\ fs_changes = 0
    /\ pc = "cmdline"
    /\ opt_idx = 1
    /\ file_idx = 1
    /\ dir_pending = {}
    /\ dir_filenames = << >>
    /\ m_rules_filenames = << >>
    /\ m_outputs = << >>
    /\ m_grpc_enabled \in BOOLEAN
    /\ m_log_level = << >>
    /\ m_min_priority = Indeterminate
    /\ m_webserver_enabled = FALSE
    /\ m_syscall_evt_drop_actions = {}
    /\ m_syscall_evt_drop_threshold = Indeterminate
    /\ m_syscall_evt_timeout_max_consecutives = Indeterminate
    /\ m_metadata_download_max_mb = Indeterminate
    /\ m_metadata_download_watch_freq_sec = Indeterminate
    /\ m_plugins = << >>
    /\ err = "none"
    /\ exit_status = << >>

\* A key left out of the document, or set to one of the values.
Opt(key, values) == {<< >>} \cup {key :> v : v \in values}

\* A document that resolves: stdout is on, rules_file names a directory
\* holding one rules file.
BaseScalars == K_stdout_enabled :> TRUE
BaseSequences == K_rules_file :> <<DirPath>>
BaseFs == [p \in FsPaths |->
              IF p = DirPath THEN Node(S_IFDIR, TRUE)
              ELSE IF p = efile_of(DirPath, <<"b">>) THEN Node(S_IFREG, TRUE)
              ELSE Absent]
Doc(scalars, sequences) ==
    [scalars |-> scalars @@ BaseScalars, sequences |-> sequences @@ BaseSequences]

\* The overrides tried: "log_level=debug", "log_level=info", "log_level",
\* "k.sub=a=b", "k.sub=", "priority=loud", "".
OptionStrings == {<<"log_level", "=", "debug">>, <<"log_level", "=", "info">>,
                  <<"log_level">>, <<"k", ".", "sub", "=", "a", "=", "b">>,
                  <<"k", ".", "sub", "=">>, <<"priority", "=", "loud">>, << >>}

InitOverrides ==
    \E opts \in SeqsUpTo(OptionStrings, MaxOpts) :
    \E level \in Opt(K_log_level, {<<"warning">>}) :
        InitState(opts, Doc(level, << >>), BaseFs)

\* Every filesystem: DirPath and FilePath of any type or absent, the
\* members of DirPath likewise when it is a directory.
NodeChoices == {Absent} \cup {Node(t, TRUE) : t \in FileTypes}
FsConfigs ==
    {f \in [FsPaths -> NodeChoices \cup {Node(S_IFDIR, FALSE)}] :
        /\ FsConsistent(f)
        /\ \A p \in FsPaths \ {DirPath} : f[p] \in NodeChoices}

InitRules ==
    \E files \in SeqsUpTo(TopPaths, MaxRules) :
    \E fsys \in FsConfigs :
        InitState(<< >>, Doc(<< >>, K_rules_file :> files), fsys)

\* The scan against a changing filesystem: it starts from a directory of
\* regular files and a regular file.
RaceFsConfigs ==
    {f \in FsConfigs :
        /\ f[DirPath] = Node(S_IFDIR, TRUE)
        /\ f[FilePath] \in {Absent, Node(S_IFREG, TRUE)}
        /\ \A p \in MemberPaths : f[p] \in {Absent, Node(S_IFREG, TRUE)}}

InitRace ==
    \E files \in SeqsUpTo(TopPaths, MaxRules) :
    \E fsys \in RaceFsConfigs :
        InitState(<< >>, Doc(<< >>, K_rules_file :> files), fsys)

ParamChoices(key) == Opt(key, {<< >>, <<"x", ".", "log">>})

InitSinks ==
    \E fe \in Opt(K_file_enabled, {TRUE}), ff \in ParamChoices(K_file_filename),
       so \in Opt(K_stdout_enabled, {FALSE}), sy \in Opt(K_syslog_enabled, {TRUE}),
       pe \in Opt(K_program_enabled, {TRUE}), pp \in ParamChoices(K_program_program),
       he \in Opt(K_http_enabled, {TRUE}), hu \in ParamChoices(K_http_url),
       ge \in Opt(K_grpc_enabled, {TRUE, FALSE}),
       go \in Opt(K_grpc_output_enabled, {TRUE, FALSE}) :
        InitState(<< >>,
                  Doc(fe @@ ff @@ so @@ sy @@ pe @@ pp @@ he @@ hu @@ ge @@ go, << >>),
                  BaseFs)

ActionNames == {<<"ignore">>, <<"log">>, <<"alert">>, <<"exit">>, <<"drop">>}

InitDrops ==
    \E acts \in Opt(K_drop_actions, SeqsUpTo(ActionNames, MaxActs)) :
        InitState(<< >>, Doc(<< >>, acts), BaseFs)

InitRanges ==
    \E th \in Opt(K_drop_threshold, {Dbl(0, -1), Dbl(0, 0), Dbl(0, 5), Dbl(1, 0),
                                     Dbl(1, 1), Dbl(1, 5)}),
       mc \in Opt(K_max_consecutives, {0, 1}),
       mb \in Opt(K_max_mb, {0, 500, 1023, 1024, 1025, 2000}),
       wf \in Opt(K_watch_freq_sec, {0, 1}),
       acts \in Opt(K_drop_actions, {<<<<"ignore">>, <<"log">>>>, <<<<"drop">>>>,
                                     <<<<"log">>, <<"alert">>>>}) :
        InitState(<< >>, Doc(th @@ mc @@ mb @@ wf, acts), BaseFs)

PluginDecls == [m_name : {<<"a">>, <<"b">>}, loadable : BOOLEAN]
AllowLists == {<< >>, <<<<"a">>>>, <<<<"b">>>>, <<<<"a">>, <<"b">>>>, <<<<"c">>, <<"a">>>>}

InitPluginLists ==
    \E decls \in Opt(K_plugins, SeqsUpTo(PluginDecls, MaxPlugins)),
       allow \in Opt(K_load_plugins, AllowLists) :
        InitState(<< >>, Doc(<< >>, decls @@ allow), BaseFs)

\* Documents that break one stage or several.
InitStages ==
    \E so \in Opt(K_stdout_enabled, {FALSE}),
       pr \in Opt(K_priority, {<<"loud">>}),
       th \in Opt(K_drop_threshold, {Dbl(1, 5)}),
       mc \in Opt(K_max_consecutives, {0}),
       mb \in Opt(K_max_mb, {2000}),
       wf \in Opt(K_watch_freq_sec, {0}),
       acts \in Opt(K_drop_actions, {<<<<"ignore">>, <<"log">>>>, <<<<"drop">>>>,
                                     <<<<"exit">>>>}),
       decls \in Opt(K_plugins, {<<[m_name |-> <<"a">>, loadable |-> FALSE]>>}) :
        InitState(<< >>, Doc(so @@ pr @@ th @@ mc @@ mb @@ wf, acts @@ decls), BaseFs)

Init ==
    \/ InitOverrides
    \/ InitRules
    \/ InitSinks
    \/ InitDrops
    \/ InitRanges
    \/ InitPluginLists
    \/ InitStages

Next ==
    \/ InitCmdlineOptions
    \/ RulesFileStat
    \/ ReadRulesFileDirectoryStat
    \/ ReadRulesFileDirectoryOpen
    \/ ReadRulesFileDirectoryEntry
    \/ InitOutputs
    \/ InitLogging
    \/ InitWebserver
    \/ InitDropActions
    \/ InitNumeric
    \/ InitPlugins

NextRace == Next \/ FsChange

Spec == Init /\ [][Next]_vars
SpecOverrides == InitOverrides /\ [][Next]_vars
SpecRules == InitRules /\ [][Next]_vars
SpecRace == InitRace /\ [][NextRace]_vars
SpecSinks == InitSinks /\ [][Next]_vars
SpecDrops == InitDrops /\ [][Next]_vars
SpecRanges == InitRanges /\ [][Next]_vars
SpecPluginLists == InitPluginLists /\ [][Next]_vars
SpecStages == InitStages /\ [][Next]_vars

(***************************************************************************)
(* Properties.  The document read is conf; where no override is given,     *)
(* m_config equals it throughout.                                          *)
(***************************************************************************)
DropErrs == {"drop_ignore_conflict", "drop_unknown_action"}
NumericErrs == {"drop_threshold_range", "max_consecutives_zero", "max_mb_range",
                "watch_freq_zero"}
OutputErrs == {"file_no_filename", "program_no_program", "http_no_url", "no_outputs"}

\* The configured drop-action names and what the spec says of them.
ConfActs == get_sequence(conf, K_drop_actions)
ActEnum(act) ==
    IF act = <<"ignore">> THEN "IGNORE"
    ELSE IF act = <<"log">> THEN "LOG"
    ELSE IF act = <<"alert">> THEN "ALERT"
    ELSE "EXIT"
ActRecognized(act) == act \in {<<"ignore">>, <<"log">>, <<"alert">>, <<"exit">>}
ActFails(i) ==
    \/ ~ActRecognized(ConfActs[i])
    \/ /\ ConfActs[i] \in {<<"log">>, <<"alert">>}
       /\ \E j \in 1..(i - 1) : ConfActs[j] = <<"ignore">>
ActsNamed(n) == {ActEnum(ConfActs[j]) : j \in 1..n}
DropBuilderRan ==
    pc \in {"numeric", "plugins", "done"} \/ (pc = "error" /\ err \in DropErrs)

\* C1: in every Configuration init constructs, the drop-action set never
\* holds IGNORE together with LOG or with ALERT.
C1_IgnoreExclusive ==
    pc = "done" =>
        ~("IGNORE" \in m_syscall_evt_drop_actions
          /\ ({"LOG", "ALERT"} \cap m_syscall_evt_drop_actions # {}))

\* C2: the builder goes through the names left to right and fails at the
\* first that is unrecognized, or is log/alert with IGNORE already in the
\* set, having inserted the names before it; when no name fails the set is
\* exactly the named actions, {IGNORE} for no name at all, and never empty.
C2_DropActionBuilder ==
    DropBuilderRan =>
        IF \E i \in 1..Len(ConfActs) : ActFails(i)
        THEN LET first == CHOOSE i \in 1..Len(ConfActs) :
                              ActFails(i) /\ \A j \in 1..(i - 1) : ~ActFails(j)
             IN  /\ pc = "error"
                 /\ err = IF ActRecognized(ConfActs[first])
                          THEN "drop_ignore_conflict" ELSE "drop_unknown_action"
                 /\ m_syscall_evt_drop_actions = ActsNamed(first - 1)
        ELSE /\ pc # "error"
             /\ m_syscall_evt_drop_actions =
                    IF ConfActs = << >> THEN {"IGNORE"} ELSE ActsNamed(Len(ConfActs))
             /\ m_syscall_evt_drop_actions # {}

\* ["log","ignore"] was accepted, IGNORE joining LOG.
C2_Witness ==
    /\ pc = "done"
    /\ ConfActs = <<<<"log">>, <<"ignore">>>>
    /\ m_syscall_evt_drop_actions = {"LOG", "IGNORE"}

\* The sinks as the document configures them.
SinkKinds == <<"file", "stdout", "syslog", "program", "http", "grpc">>
SinkEnabledKey == [file |-> K_file_enabled, stdout |-> K_stdout_enabled,
                   syslog |-> K_syslog_enabled, program |-> K_program_enabled,
                   http |-> K_http_enabled, grpc |-> K_grpc_output_enabled]
SinkParamKey == [file |-> K_file_filename, program |-> K_program_program,
                 http |-> K_http_url]
SinkParamName == [file |-> "filename", program |-> "program", http |-> "url"]
SinkMissingErr == [file |-> "file_no_filename", program |-> "program_no_program",
                   http |-> "http_no_url"]
SinkEnabled(kind) ==
    IF kind = "grpc"
    THEN K_grpc_output_enabled \notin DOMAIN conf.scalars \/ conf.scalars[K_grpc_output_enabled]
    ELSE SinkEnabledKey[kind] \in DOMAIN conf.scalars /\ conf.scalars[SinkEnabledKey[kind]]
GrpcServerEnabled ==
    K_grpc_enabled \in DOMAIN conf.scalars /\ conf.scalars[K_grpc_enabled]
SinkParam(kind) ==
    IF SinkParamKey[kind] \in DOMAIN conf.scalars
    THEN conf.scalars[SinkParamKey[kind]] ELSE << >>
SinkLacksParam(kind) == SinkEnabled(kind) /\ SinkParam(kind) = << >>
SinkQualifies(kind) ==
    IF kind = "grpc" THEN SinkEnabled(kind) /\ GrpcServerEnabled ELSE SinkEnabled(kind)
OutputsRan == pc \notin {"cmdline", "rules", "rrfd_stat", "rrfd_opendir", "rrfd_readdir",
                         "outputs"}
OutputNames == [i \in 1..Len(m_outputs) |-> m_outputs[i].name]

\* C3: with the required parameters present, the sink list is the enabled
\* kinds in the order file, stdout, syslog, program, http, grpc, each at
\* most once, grpc being there exactly when grpc_output.enabled (default
\* true) and grpc.enabled (default false) both hold; with no sink the
\* resolution fails with "no outputs configured", so a list is never empty.
C3_SinkList ==
    (OutputsRan /\ \A k \in DOMAIN SinkParamKey : ~SinkLacksParam(k)) =>
        LET expected == SelectSeq(SinkKinds, SinkQualifies) IN
        IF expected = << >>
        THEN pc = "error" /\ err = "no_outputs" /\ m_outputs = << >>
        ELSE /\ err = "none"
             /\ OutputNames = expected
             /\ m_grpc_enabled = GrpcServerEnabled

\* grpc_output.enabled is left to its default and grpc.enabled is false:
\* the other five sinks are there, grpc is not.
C3_Witness ==
    /\ pc = "done"
    /\ K_grpc_output_enabled \notin DOMAIN conf.scalars
    /\ ~GrpcServerEnabled
    /\ OutputNames = <<"file", "stdout", "syslog", "program", "http">>

\* C9 as stated: an enabled file, program or http sink whose parameter is
\* absent or empty makes resolution fail with that sink's own error, whatever
\* the other sinks are.
C9_OwnMissingParameterError ==
    OutputsRan =>
        \A k \in DOMAIN SinkParamKey :
            SinkLacksParam(k) => pc = "error" /\ err = SinkMissingErr[k]

FirstLackingSink ==
    IF SinkLacksParam("file") THEN "file"
    ELSE IF SinkLacksParam("program") THEN "program"
    ELSE IF SinkLacksParam("http") THEN "http"
    ELSE "none"

\* C9 amended: resolution fails with the error of the first sink, in the
\* order file, program, http, that is enabled and lacks its parameter,
\* whatever the other sinks are and before "no outputs configured" is looked
\* at; when there is none, every enabled one of the three is in the list
\* with exactly its value, and no missing-parameter error is raised (so a
\* disabled sink lacking its parameter fails nothing).
C9_FirstMissingParameterError ==
    OutputsRan =>
        IF FirstLackingSink # "none"
        THEN pc = "error" /\ err = SinkMissingErr[FirstLackingSink]
        ELSE /\ err \notin {SinkMissingErr[k] : k \in DOMAIN SinkMissingErr}
             /\ \A k \in DOMAIN SinkParamKey :
                    SinkEnabled(k) =>
                        \E i \in 1..Len(m_outputs) :
                            /\ m_outputs[i].name = k
                            /\ m_outputs[i].options[SinkParamName[k]] = SinkParam(k)

\* program and http both lack their parameter while other sinks were
\* already added: the error is program's.
C9_Witness ==
    /\ pc = "error"
    /\ err = "program_no_program"
    /\ SinkLacksParam("http")
    /\ ~SinkEnabled("file")
    /\ Len(m_outputs) > 0

\* What the spec says of one override: where its first "=" is, and the
\* path and the value on either side of it.
HasEq(opt) == \E i \in 1..Len(opt) : opt[i] = "="
FirstEq(opt) ==
    CHOOSE i \in 1..Len(opt) : opt[i] = "=" /\ \A j \in 1..(i - 1) : opt[j] # "="
PathOf(opt) == SubSeq(opt, 1, FirstEq(opt) - 1)
ValueOf(opt) == SubSeq(opt, FirstEq(opt) + 1, Len(opt))

\* m_config holds the document read with the first n overrides written
\* into it, the later of two overrides of a path over the earlier.
OverridesWritten(n) ==
    LET naming(k) == {j \in 1..n : PathOf(cmdline_options[j]) = k}
        paths == {PathOf(cmdline_options[j]) : j \in 1..n}
    IN  /\ DOMAIN m_config.scalars = DOMAIN conf.scalars \cup paths
        /\ \A k \in paths :
               LET last == CHOOSE j \in naming(k) : \A l \in naming(k) : l <= j
               IN  m_config.scalars[k] = ValueOf(cmdline_options[last])
        /\ \A k \in DOMAIN conf.scalars \ paths : m_config.scalars[k] = conf.scalars[k]
        /\ m_config.sequences = conf.sequences

NothingExtracted ==
    /\ m_rules_filenames = << >>
    /\ m_outputs = << >>
    /\ m_syscall_evt_drop_actions = {}
    /\ m_plugins = << >>

\* C4: the overrides are written into the document in the order given,
\* each split at its first "=", so that afterwards a path holds the value of
\* the last override naming it (and the log level extracted is that value);
\* an override with no "=" fails resolution with a syntax error before
\* anything is extracted, the overrides before it being written already.
C4_Overrides ==
    /\ pc = "cmdline" =>
           /\ \A j \in 1..(opt_idx - 1) : HasEq(cmdline_options[j])
           /\ OverridesWritten(opt_idx - 1)
           /\ NothingExtracted
    /\ (pc = "error" /\ err = "cmdline_syntax") =>
           /\ opt_idx \in 1..Len(cmdline_options)
           /\ ~HasEq(cmdline_options[opt_idx])
           /\ \A j \in 1..(opt_idx - 1) : HasEq(cmdline_options[j])
           /\ OverridesWritten(opt_idx - 1)
           /\ NothingExtracted
    /\ (pc # "cmdline" /\ ~(pc = "error" /\ err = "cmdline_syntax")) =>
           /\ \A j \in 1..Len(cmdline_options) : HasEq(cmdline_options[j])
           /\ OverridesWritten(Len(cmdline_options))
    /\ pc = "done" =>
           m_log_level = IF K_log_level \in DOMAIN m_config.scalars
                         THEN m_config.scalars[K_log_level] ELSE <<"info">>

\* "k.sub=a=b" was written, value "a=b", and the next override, "log_level",
\* failed with nothing extracted.
C4_Witness ==
    /\ pc = "error"
    /\ err = "cmdline_syntax"
    /\ cmdline_options = <<<<"k", ".", "sub", "=", "a", "=", "b">>, <<"log_level">>>>
    /\ m_config.scalars[<<"k", ".", "sub">>] = <<"a", "=", "b">>
    /\ NothingExtracted

\* What the spec says a rules_file entry expands to.
SortedSeqOf(S) ==
    CHOOSE q \in [1..Cardinality(S) -> S] :
        /\ Range(q) = S
        /\ \A i, j \in 1..Cardinality(S) : i < j => string_less(q[i], q[j])
RegularMembers(path) ==
    {efile_of(path, n) : n \in {m \in MemberNames :
        /\ efile_of(path, m) \in FsPaths
        /\ fs[efile_of(path, m)].exists
        /\ fs[efile_of(path, m)].st_mode = S_IFREG}}
Expansion(path) ==
    IF ~fs[path].exists THEN << >>
    ELSE IF fs[path].st_mode = S_IFDIR THEN SortedSeqOf(RegularMembers(path))
    ELSE <<path>>
RECURSIVE ExpansionOfAll(_)
ExpansionOfAll(files) ==
    IF files = << >> THEN << >>
    ELSE Expansion(Head(files)) \o ExpansionOfAll(Tail(files))
ConfRulesFiles == get_sequence(conf, K_rules_file)

\* C5: on a filesystem that stays as it is, the rules-file list is the
\* concatenation, in configured order, of each entry's expansion: nothing
\* for a missing path, the path for a regular file, and for a directory its
\* regular files only, sorted, every other type of member left out.
C5_RulesFileList ==
    (/\ pc = "done"
     /\ \A i \in 1..Len(ConfRulesFiles) :
            \/ ~fs[ConfRulesFiles[i]].exists
            \/ fs[ConfRulesFiles[i]].st_mode \in {S_IFREG, S_IFDIR})
    => m_rules_filenames = ExpansionOfAll(ConfRulesFiles)

ScanEntry == rules_files[file_idx]
ExitedNonZero ==
    /\ pc' = "exited"
    /\ Len(exit_status') = 1
    /\ exit_status'[1] # 0
    /\ err' = "none"
    /\ m_rules_filenames' = m_rules_filenames

\* C6: an entry missing at the check of line 78 is passed over with no
\* error; a stat or opendir that fails after that check passed (lines 312,
\* 327, 339) ends the process at once with a status other than 0, and is
\* never thrown as a configuration error nor passed over.
C6_ScanFailures ==
    [][/\ (pc = "rules" /\ fs_changes' = fs_changes /\ file_idx <= Len(rules_files)
           /\ stat(fs, ScanEntry).rc # 0)
          => /\ pc' = "rules"
             /\ file_idx' = file_idx + 1
             /\ m_rules_filenames' = m_rules_filenames
             /\ err' = "none"
             /\ exit_status' = << >>
       /\ (pc = "rrfd_stat" /\ fs_changes' = fs_changes)
          => IF stat(fs, ScanEntry).rc # 0 THEN ExitedNonZero ELSE pc' # "exited"
       /\ (pc = "rrfd_opendir" /\ fs_changes' = fs_changes)
          => IF ~opendir(fs, ScanEntry).ok THEN ExitedNonZero ELSE pc' # "exited"
       /\ (pc = "rrfd_readdir" /\ fs_changes' = fs_changes /\ dir_pending # {})
          => \E d_name \in dir_pending :
                 IF stat(fs, efile_of(ScanEntry, d_name)).rc # 0
                 THEN ExitedNonZero
                 ELSE pc' = "rrfd_readdir" /\ dir_pending' = dir_pending \ {d_name}
       /\ pc \in ScanPcs => err' = "none"
      ]_vars

\* The directory was opened and a member it listed went away before its
\* stat: the process exited with 255.
C6_Witness ==
    /\ pc = "exited"
    /\ exit_status = <<255>>
    /\ fs_changes = 1
    /\ dir_pending # {}
    /\ IsDirNode(fs[DirPath])

\* The numeric settings as the document gives them, section 6's default
\* standing in for one it leaves out.
ConfScalar(key, default_value) ==
    IF key \in DOMAIN conf.scalars THEN conf.scalars[key] ELSE default_value
ConfThreshold == ConfScalar(K_drop_threshold, Dbl(0, 1))
ConfMaxConsecutives == ConfScalar(K_max_consecutives, 1000)
ConfMaxMb == ConfScalar(K_max_mb, 100)
ConfWatchFreqSec == ConfScalar(K_watch_freq_sec, 1)
RangeViolated ==
    \/ ConfThreshold < Dbl(0, 0)
    \/ ConfThreshold > Dbl(1, 0)
    \/ ConfMaxConsecutives <= 0
    \/ ConfMaxMb > 1024
    \/ ConfWatchFreqSec <= 0
DropViolated == \E i \in 1..Len(ConfActs) : ActFails(i)
NumericRan == pc \in {"plugins", "done"} \/ (pc = "error" /\ err \in NumericErrs)
NumericUntouched ==
    /\ m_syscall_evt_drop_threshold = Indeterminate
    /\ m_syscall_evt_timeout_max_consecutives = Indeterminate
    /\ m_metadata_download_max_mb = Indeterminate
    /\ m_metadata_download_watch_freq_sec = Indeterminate

\* C7: a Configuration that was constructed has its drop threshold within
\* [0,1], max consecutive timeouts > 0, max_mb <= 1024 and watch_freq_sec
\* > 0, and a document that breaks one of these never resolves: the range
\* checks fail exactly on such a document, so threshold 0, threshold 1 and
\* max_mb 1024 pass and max_mb 1025, max_consecutives 0 and watch_freq_sec 0
\* do not.
C7_NumericRanges ==
    /\ pc = "done" =>
           /\ m_syscall_evt_drop_threshold = ConfThreshold
           /\ m_syscall_evt_drop_threshold >= Dbl(0, 0)
           /\ m_syscall_evt_drop_threshold <= Dbl(1, 0)
           /\ m_syscall_evt_timeout_max_consecutives = ConfMaxConsecutives
           /\ m_syscall_evt_timeout_max_consecutives > 0
           /\ m_metadata_download_max_mb = ConfMaxMb
           /\ m_metadata_download_max_mb <= 1024
           /\ m_metadata_download_watch_freq_sec = ConfWatchFreqSec
           /\ m_metadata_download_watch_freq_sec > 0
    /\ RangeViolated => pc \notin {"plugins", "done"}
    /\ NumericRan => (RangeViolated <=> pc = "error")

\* threshold 1 and max_mb 1024, both on the boundary, were accepted.
C7_Witness ==
    /\ pc = "done"
    /\ m_syscall_evt_drop_threshold = Dbl(1, 0)
    /\ m_metadata_download_max_mb = 1024

\* The plugins as the document declares them, and the allow-list.
ConfPlugins == get_sequence(conf, K_plugins)
AllowListPresent == K_load_plugins \in DOMAIN conf.sequences
AllowList == IF AllowListPresent THEN Range(conf.sequences[K_load_plugins]) ELSE {}
InAllowList(p) == p.m_name \in AllowList

\* C8: with no load_plugins key the plugin list is the declared sequence;
\* with the key, be its value empty, the list is the declared plugins named
\* in it, in declaration order; dropping a plugin raises no error.
C8_PluginFilter ==
    /\ pc = "done" =>
           m_plugins = IF AllowListPresent
                       THEN SelectSeq(ConfPlugins, InAllowList)
                       ELSE ConfPlugins
    /\ (pc = "error" /\ err = "plugins_load") =>
           \E i \in 1..Len(ConfPlugins) : ~ConfPlugins[i].loadable
    /\ pc = "error" => err = "plugins_load"

\* load_plugins is there and empty: of two declared plugins none is kept.
C8_Witness ==
    /\ pc = "done"
    /\ AllowListPresent
    /\ AllowList = {}
    /\ Len(ConfPlugins) = 2
    /\ m_plugins = << >>

\* C10 as stated: the numeric range checks come before the drop-action
\* set, so a document that breaks both fails with the range error, the
\* drop-action set not yet touched.
C10_RangesBeforeDropActions ==
    (/\ pc = "error"
     /\ err \in DropErrs \cup NumericErrs
     /\ RangeViolated
     /\ DropViolated)
    => (err \in NumericErrs /\ m_syscall_evt_drop_actions = {})

\* C10 amended: the stages run in the order outputs, logging level and
\* priority, web server, drop-action set, numeric range checks, plugins, and
\* the first that fails stops the pipeline, the later ones not having run;
\* a document that breaks both a numeric range and the drop-action rules
\* fails with the drop-action error, the numeric members not yet assigned.
C10_StageOrder ==
    /\ (pc = "error" /\ err \in OutputErrs) =>
           /\ m_log_level = << >>
           /\ m_min_priority = Indeterminate
           /\ m_syscall_evt_drop_actions = {}
           /\ NumericUntouched
           /\ m_plugins = << >>
    /\ (pc = "error" /\ err = "unknown_priority") =>
           /\ m_outputs # << >>
           /\ m_syscall_evt_drop_actions = {}
           /\ NumericUntouched
           /\ m_plugins = << >>
    /\ (pc = "error" /\ err \in DropErrs) =>
           /\ m_outputs # << >>
           /\ m_min_priority # Indeterminate
           /\ DropViolated
           /\ NumericUntouched
           /\ m_plugins = << >>
    /\ (pc = "error" /\ err \in NumericErrs) =>
           /\ m_outputs # << >>
           /\ m_min_priority # Indeterminate
           /\ m_syscall_evt_drop_actions # {}
           /\ ~DropViolated
           /\ RangeViolated
           /\ m_syscall_evt_drop_threshold # Indeterminate
           /\ m_plugins = << >>
    /\ (pc = "error" /\ err = "plugins_load") =>
           /\ m_outputs # << >>
           /\ m_min_priority # Indeterminate
           /\ m_syscall_evt_drop_actions # {}
           /\ ~DropViolated
           /\ ~RangeViolated
           /\ m_metadata_download_watch_freq_sec # Indeterminate
    /\ DropViolated => pc \notin {"numeric", "plugins", "done"}
    /\ (pc = "error" /\ err \in DropErrs \cup NumericErrs /\ RangeViolated /\ DropViolated)
           => (err \in DropErrs /\ NumericUntouched)

\* Threshold 1.5 and actions ["ignore","log"]: the error is the drop-action
\* one and the threshold was never assigned.
C10_Witness ==
    /\ pc = "error"
    /\ err = "drop_ignore_conflict"
    /\ ConfThreshold = Dbl(1, 5)
    /\ ConfActs = <<<<"ignore">>, <<"log">>>>
    /\ m_syscall_evt_drop_threshold = Indeterminate

====
